---------------------------- MODULE Spec2Model ----------------------------
(***************************************************************************)
(* sigcluster: the bit-parallel Hamming kernel (hamming.cc, simd_compat.h), *)
(* the banded LSH index (lsh.cc) and the handle registry of the addon      *)
(* (addon.cc).                                                             *)
(*                                                                         *)
(* A byte string is a sequence of naturals in 0..255.  A uint64_t is kept  *)
(* as its eight bytes, least significant first, so that every 64-bit       *)
(* operation of the source keeps its width.                                *)
(***************************************************************************)
EXTENDS Integers, Sequences, FiniteSets, TLC

VARIABLES
    hwPopcnt,         \* build: TRUE when popcount64 compiles to the intrinsic
    openmp,           \* build: TRUE when _OPENMP is defined
    ham,              \* hamming(bufferA, bufferB): arguments, position, result
    fsp,              \* find_similar_pairs: arguments, workers, output
    bat,              \* batch_hamming: arguments, workers, output
    ext,              \* extractBandHash: arguments, bytes read, result
    g_lshIndexes,     \* addon.cc: handle -> LSHIndex
    g_lshSignatures,  \* addon.cc: handle -> vector of signatures
    g_nextHandle,     \* addon.cc: next handle to mint
    ret,              \* the last registry call: operation, arguments, result
    passed,           \* history: handle -> the signatures handed to LSHIndex::add
    returned,         \* history: handle -> how many ids were returned to the caller
    lastMinted        \* history: << >>, or the greatest handle returned so far

vars == <<hwPopcnt, openmp, ham, fsp, bat, ext, g_lshIndexes, g_lshSignatures,
          g_nextHandle, ret, passed, returned, lastMinted>>

---------------------------------------------------------------------------
(* Bounds of the model. *)

MaxHamLen == 17

MaxN == 18

MaxThreads == 2

MaxHandles == 2

MaxSigs == 2

---------------------------------------------------------------------------
(* C operators on unsigned integers. *)

RECURSIVE Pow2(_)
Pow2(n) == IF n = 0 THEN 1 ELSE 2 * Pow2(n - 1)

RECURSIVE BitAnd(_, _)
BitAnd(x, y) ==
    IF x = 0 \/ y = 0 THEN 0
    ELSE (x % 2) * (y % 2) + 2 * BitAnd(x \div 2, y \div 2)

RECURSIVE BitXor(_, _)
BitXor(x, y) ==
    IF x = 0 THEN y
    ELSE IF y = 0 THEN x
    ELSE (((x % 2) + (y % 2)) % 2) + 2 * BitXor(x \div 2, y \div 2)

(* uint64_t as eight bytes, least significant first. *)
U64Rep(b) == [k \in 1..8 |-> b]

U64Zero == U64Rep(0)

U64And(x, y) == [k \in 1..8 |-> BitAnd(x[k], y[k])]

U64Xor(x, y) == [k \in 1..8 |-> BitXor(x[k], y[k])]

U64Limb(x, k) == IF k >= 1 /\ k <= 8 THEN x[k] ELSE 0

(* x >> n, 0 <= n < 64 *)
U64Shr(x, n) ==
    LET q == n \div 8
        r == n % 8
    IN  [k \in 1..8 |->
            (U64Limb(x, k + q) \div Pow2(r))
            + (U64Limb(x, k + q + 1) % Pow2(r)) * Pow2(8 - r)]

RECURSIVE U64AddFrom(_, _, _, _)
U64AddFrom(x, y, k, carry) ==
    IF k > 8 THEN << >>
    ELSE LET s == x[k] + y[k] + carry
         IN  <<s % 256>> \o U64AddFrom(x, y, k + 1, s \div 256)

(* x + y modulo 2^64 *)
U64Add(x, y) == U64AddFrom(x, y, 1, 0)

RECURSIVE U64SubFrom(_, _, _, _)
U64SubFrom(x, y, k, borrow) ==
    IF k > 8 THEN << >>
    ELSE LET d == x[k] - y[k] - borrow
         IN  <<(d + 256) % 256>> \o U64SubFrom(x, y, k + 1, IF d < 0 THEN 1 ELSE 0)

(* x - y modulo 2^64 *)
U64Sub(x, y) == U64SubFrom(x, y, 1, 0)

RECURSIVE U64Dot(_, _, _, _)
U64Dot(x, y, k, i) ==
    IF i > k THEN 0 ELSE x[i] * y[k + 1 - i] + U64Dot(x, y, k, i + 1)

RECURSIVE U64MulFrom(_, _, _, _)
U64MulFrom(x, y, k, carry) ==
    IF k > 8 THEN << >>
    ELSE LET s == U64Dot(x, y, k, 1) + carry
         IN  <<s % 256>> \o U64MulFrom(x, y, k + 1, s \div 256)

(* x * y modulo 2^64 *)
U64Mul(x, y) == U64MulFrom(x, y, 1, 0)

(* static_cast<uint32_t>(x): the low four bytes *)
U32Of(x) == x[1] + 256 * x[2] + 65536 * x[3] + 16777216 * x[4]

---------------------------------------------------------------------------
(* simd_compat.h *)

RECURSIVE OnesOf(_)
OnesOf(n) == IF n = 0 THEN 0 ELSE (n % 2) + OnesOf(n \div 2)

(* __builtin_popcountll / __popcnt64: the number of one bits of x *)
builtin_popcountll(x) ==
    OnesOf(x[1]) + OnesOf(x[2]) + OnesOf(x[3]) + OnesOf(x[4])
    + OnesOf(x[5]) + OnesOf(x[6]) + OnesOf(x[7]) + OnesOf(x[8])

(* the fallback without its mask of the low nibble of every byte *)
popcount64_portable_NoNibbleMask(x0) ==
    LET x1 == U64Sub(x0, U64And(U64Shr(x0, 1), U64Rep(85)))
        x2 == U64Add(U64And(x1, U64Rep(51)), U64And(U64Shr(x1, 2), U64Rep(51)))
        x3 == U64Add(x2, U64Shr(x2, 4))
    IN  U32Of(U64Shr(U64Mul(x3, U64Rep(1)), 56))

(* the portable fallback (Hamming weight algorithm) *)
popcount64_portable(x0) ==
    LET x1 == U64Sub(x0, U64And(U64Shr(x0, 1), U64Rep(85)))
        x2 == U64Add(U64And(x1, U64Rep(51)), U64And(U64Shr(x1, 2), U64Rep(51)))
        x3 == U64And(U64Add(x2, U64Shr(x2, 4)), U64Rep(15))
    IN  U32Of(U64Shr(U64Mul(x3, U64Rep(1)), 56))

popcount64(x) ==
    IF hwPopcnt THEN builtin_popcountll(x) ELSE popcount64_portable(x)

---------------------------------------------------------------------------
(* hamming.cc *)

(* *a64 at byte offset i (0-based) of buffer a *)
LoadU64(a, i) == [k \in 1..8 |-> a[i + k]]

RECURSIVE WordLoop(_, _, _, _, _)
WordLoop(a, b, i, len64, dist) ==
    IF i < len64
    THEN WordLoop(a, b, i + 8, len64,
                  dist + popcount64(U64Xor(LoadU64(a, i), LoadU64(b, i))))
    ELSE dist

(* the byte-level popcount of the tail loop, in uint8_t arithmetic *)
TailPopcount(v) ==
    LET v1 == (BitAnd(v, 85) + BitAnd(v \div 2, 85)) % 256
        v2 == (BitAnd(v1, 51) + BitAnd(v1 \div 4, 51)) % 256
        v3 == (BitAnd(v2, 15) + BitAnd(v2 \div 16, 15)) % 256
    IN  v3

RECURSIVE TailLoop(_, _, _, _, _)
TailLoop(a, b, i, len, dist) ==
    IF i < len
    THEN TailLoop(a, b, i + 1, len, dist + TailPopcount(BitXor(a[i + 1], b[i + 1])))
    ELSE dist

hamming_distance(a, b, len) ==
    LET len64 == len - (len % 8)
    IN  TailLoop(a, b, len64, len, WordLoop(a, b, 0, len64, 0))

(* addon.cc Hamming: the exported hamming(bufferA, bufferB) *)
Hamming(a, b) ==
    IF Len(a) # Len(b)
    THEN [err |-> "TypeError", dist |-> 0]
    ELSE [err |-> "none", dist |-> hamming_distance(a, b, Len(a))]

(* signatures + i * sig_len: signature i (0-based) of the contiguous array *)
SigAt(signatures, i, sig_len) ==
    SubSeq(signatures, i * sig_len + 1, (i + 1) * sig_len)

(* an iteration that takes its signature at signatures + i *)
BatchIteration_NoStride(target, signatures, sig_len, i) ==
    hamming_distance(target, SubSeq(signatures, i + 1, i + sig_len), sig_len)

(* batch_hamming, iteration i: the value written to out_distances[i] *)
BatchIteration(target, signatures, sig_len, i) ==
    hamming_distance(target, SigAt(signatures, i, sig_len), sig_len)

(* out_distances[i] = v *)
WriteAt(out, i, v) == [k \in DOMAIN out \cup {i} |-> IF k = i THEN v ELSE out[k]]

(* schedule(dynamic, 16) *)
ChunkSize == 16

Min(x, y) == IF x <= y THEN x ELSE y

(* the inner loop of the parallel path for one i, from j on: the records   *)
(* pushed on the worker's local vectors                                     *)
RECURSIVE InnerLoop(_, _, _, _, _, _)
InnerLoop(signatures, n, sig_len, threshold, i, j) ==
    IF j < n
    THEN LET dist == hamming_distance(SigAt(signatures, i, sig_len),
                                      SigAt(signatures, j, sig_len), sig_len)
         IN  (IF dist <= threshold THEN <<[i |-> i, j |-> j, dist |-> dist]>> ELSE << >>)
             \o InnerLoop(signatures, n, sig_len, threshold, i, j + 1)
    ELSE << >>

(* an outer loop whose inner loop starts at j = i *)
RECURSIVE ChunkLoop_FromSelf(_, _, _, _, _, _)
ChunkLoop_FromSelf(signatures, n, sig_len, threshold, lo, hi) ==
    IF lo < hi
    THEN InnerLoop(signatures, n, sig_len, threshold, lo, lo)
         \o ChunkLoop_FromSelf(signatures, n, sig_len, threshold, lo + 1, hi)
    ELSE << >>

(* the outer-loop iterations i in [lo, hi) run by one worker *)
RECURSIVE ChunkLoop(_, _, _, _, _, _)
ChunkLoop(signatures, n, sig_len, threshold, lo, hi) ==
    IF lo < hi
    THEN InnerLoop(signatures, n, sig_len, threshold, lo, lo + 1)
         \o ChunkLoop(signatures, n, sig_len, threshold, lo + 1, hi)
    ELSE << >>

(* a merge that copies every worker's records whole *)
RECURSIVE MergeFrom_NoCap(_, _, _, _, _)
MergeFrom_NoCap(local, num_threads, max_pairs, t, out) ==
    IF t < num_threads /\ Len(out) < max_pairs
    THEN MergeFrom_NoCap(local, num_threads, max_pairs, t + 1, out \o local[t])
    ELSE out

(* the merge phase from worker t on: the records written to the output *)
RECURSIVE MergeFrom(_, _, _, _, _)
MergeFrom(local, num_threads, max_pairs, t, out) ==
    IF t < num_threads /\ Len(out) < max_pairs
    THEN LET to_copy == Min(Len(local[t]), max_pairs - Len(out))
         IN  MergeFrom(local, num_threads, max_pairs, t + 1,
                       out \o SubSeq(local[t], 1, to_copy))
    ELSE out

(* the inner loop of the single-threaded fallback for one i, from j on:   *)
(* out holds the records written so far, count = Len(out)                  *)
RECURSIVE SerialInner(_, _, _, _, _, _, _, _)
SerialInner(signatures, n, sig_len, threshold, max_pairs, i, j, out) ==
    IF j < n /\ Len(out) < max_pairs
    THEN LET dist == hamming_distance(SigAt(signatures, i, sig_len),
                                      SigAt(signatures, j, sig_len), sig_len)
         IN  SerialInner(signatures, n, sig_len, threshold, max_pairs, i, j + 1,
                         IF dist <= threshold
                         THEN Append(out, [i |-> i, j |-> j, dist |-> dist])
                         ELSE out)
    ELSE out

(* the outer loop of the single-threaded fallback from i on *)
RECURSIVE SerialLoop(_, _, _, _, _, _, _)
SerialLoop(signatures, n, sig_len, threshold, max_pairs, i, out) ==
    IF i < n /\ Len(out) < max_pairs
    THEN SerialLoop(signatures, n, sig_len, threshold, max_pairs, i + 1,
                    SerialInner(signatures, n, sig_len, threshold, max_pairs,
                                i, i + 1, out))
    ELSE out

---------------------------------------------------------------------------
(* uint32_t.  A value v is kept as v when v < 2^31 and as v - 2^32         *)
(* otherwise, so that all 2^32 values are integers of the model checker.   *)

(* the uint32_t hi * 2^16 + lo, for hi, lo in 0..65535 *)
U32(hi, lo) == (IF hi >= 32768 THEN hi - 65536 ELSE hi) * 65536 + lo

(* x + 1 on uint32_t: 2^31 - 1 is followed by 2^31, 2^32 - 1 by 0 *)
U32Inc(x) == IF x = 2147483647 THEN (-2147483647) - 1 ELSE x + 1

(* x < y on uint32_t *)
U32Less(x, y) ==
    IF (x >= 0) = (y >= 0) THEN x < y ELSE x >= 0

---------------------------------------------------------------------------
(* lsh.cc *)

(* LSHIndex::LSHIndex *)
LSHIndex(numBands, bitsPerBand) ==
    [numBands |-> numBands,
     bitsPerBand |-> bitsPerBand,
     bytesPerBand |-> (bitsPerBand + 7) \div 8,
     buckets |-> [b \in 0..(numBands - 1) |-> [hash \in {} |-> << >>]]]

(* (1ULL << bits) - 1 *)
LowBitsMask(bits) ==
    [k \in 1..8 |->
        IF 8 * k <= bits THEN 255
        ELSE IF 8 * (k - 1) >= bits THEN 0
        ELSE Pow2(bits - 8 * (k - 1)) - 1]

(* a window of eight bytes, whatever bytesPerBand is *)
BandWindow_AlwaysEight(index, bandIndex) ==
    LET bitOffset == bandIndex * index.bitsPerBand
        byteOffset == bitOffset \div 8
    IN  {byteOffset + i : i \in 0..7}

(* the positions byteOffset + i, i < bytesToRead, that extractBandHash reads *)
BandWindow(index, bandIndex) ==
    LET bitOffset == bandIndex * index.bitsPerBand
        byteOffset == bitOffset \div 8
        bytesToRead == Min(index.bytesPerBand, 8)
    IN  {byteOffset + i : i \in 0..(bytesToRead - 1)}

(* LSHIndex::extractBandHash *)
extractBandHash(index, signature, bandIndex) ==
    LET bitOffset == bandIndex * index.bitsPerBand
        byteOffset == bitOffset \div 8
        hash == [k \in 1..8 |->
                    IF byteOffset + k - 1 \in BandWindow(index, bandIndex)
                    THEN signature[byteOffset + k]
                    ELSE 0]
    IN  IF index.bitsPerBand < 64
        THEN U64And(hash, LowBitsMask(index.bitsPerBand))
        ELSE hash

requiredBytes(index) == (index.numBands * index.bitsPerBand + 7) \div 8

(* a posting list that grows at its front *)
PushBack_AtFront(bucket, bandHash, id) ==
    [hash \in DOMAIN bucket \cup {bandHash} |->
        IF hash = bandHash
        THEN (IF bandHash \in DOMAIN bucket THEN <<id>> \o bucket[bandHash] ELSE <<id>>)
        ELSE bucket[hash]]

(* buckets_[b][bandHash].push_back(id) *)
PushBack(bucket, bandHash, id) ==
    [hash \in DOMAIN bucket \cup {bandHash} |->
        IF hash = bandHash
        THEN (IF bandHash \in DOMAIN bucket THEN Append(bucket[bandHash], id) ELSE <<id>>)
        ELSE bucket[hash]]

(* add that also skips a signature of exactly requiredBytes *)
IndexAdd_SkipsExactLength(index, id, signature) ==
    IF Len(signature) <= requiredBytes(index)
    THEN index
    ELSE [index EXCEPT !.buckets =
            [b \in 0..(index.numBands - 1) |->
                PushBack(index.buckets[b], extractBandHash(index, signature, b), id)]]

(* LSHIndex::add: the index after add(id, signature, Len(signature)) *)
IndexAdd(index, id, signature) ==
    IF Len(signature) < requiredBytes(index)
    THEN index
    ELSE [index EXCEPT !.buckets =
            [b \in 0..(index.numBands - 1) |->
                PushBack(index.buckets[b], extractBandHash(index, signature, b), id)]]

SeqRange(q) == {q[k] : k \in 1..Len(q)}

(* a lookup that consults band 0 only *)
findCandidates_FirstBandOnly(index, signature) ==
    IF Len(signature) < requiredBytes(index)
    THEN {}
    ELSE LET bandHash == extractBandHash(index, signature, 0)
             bucket == index.buckets[0]
         IN  IF bandHash \in DOMAIN bucket THEN SeqRange(bucket[bandHash]) ELSE {}

(* LSHIndex::findCandidates: the unordered_set of candidate ids *)
findCandidates(index, signature) ==
    IF Len(signature) < requiredBytes(index)
    THEN {}
    ELSE UNION {LET bandHash == extractBandHash(index, signature, b)
                    bucket == index.buckets[b]
                IN  IF bandHash \in DOMAIN bucket THEN SeqRange(bucket[bandHash]) ELSE {}
                : b \in 0..(index.numBands - 1)}

(* the orders in which a range-for may iterate an unordered_set *)
IterationOrders(set) ==
    {q \in [1..Cardinality(set) -> set] : \A i, j \in DOMAIN q : i # j => q[i] # q[j]}

(* a verification loop that keeps every candidate, whatever its distance *)
RECURSIVE VerifyFrom_NoThreshold(_, _, _, _, _)
VerifyFrom_NoThreshold(iter, k, signature, allSignatures, threshold) ==
    IF k > Len(iter) THEN << >>
    ELSE LET id == iter[k]
             rest == VerifyFrom_NoThreshold(iter, k + 1, signature, allSignatures,
                                            threshold)
         IN  IF id < Len(allSignatures)
             THEN LET candidateSig == allSignatures[id + 1]
                      compareBytes == Min(Len(signature), Len(candidateSig))
                      dist == hamming_distance(signature, candidateSig, compareBytes)
                  IN  <<[id |-> id, dist |-> dist]>> \o rest
             ELSE rest

(* a verification loop whose bound check leaves out the last stored id *)
RECURSIVE VerifyFrom_OffByOne(_, _, _, _, _)
VerifyFrom_OffByOne(iter, k, signature, allSignatures, threshold) ==
    IF k > Len(iter) THEN << >>
    ELSE LET id == iter[k]
             rest == VerifyFrom_OffByOne(iter, k + 1, signature, allSignatures,
                                         threshold)
         IN  IF id + 1 < Len(allSignatures)
             THEN LET candidateSig == allSignatures[id + 1]
                      compareBytes == Min(Len(signature), Len(candidateSig))
                      dist == hamming_distance(signature, candidateSig, compareBytes)
                  IN  IF dist <= threshold
                      THEN <<[id |-> id, dist |-> dist]>> \o rest
                      ELSE rest
             ELSE rest

(* LSHIndex::querySimilar, the verification loop from position k of the     *)
(* iteration on: the {id, dist} pushed on results                           *)
RECURSIVE VerifyFrom(_, _, _, _, _)
VerifyFrom(iter, k, signature, allSignatures, threshold) ==
    IF k > Len(iter) THEN << >>
    ELSE LET id == iter[k]
             rest == VerifyFrom(iter, k + 1, signature, allSignatures, threshold)
         IN  IF id < Len(allSignatures)
             THEN LET candidateSig == allSignatures[id + 1]
                      compareBytes == Min(Len(signature), Len(candidateSig))
                      dist == hamming_distance(signature, candidateSig, compareBytes)
                  IN  IF dist <= threshold
                      THEN <<[id |-> id, dist |-> dist]>> \o rest
                      ELSE rest
             ELSE rest

(* a sort that keeps one result of every distance *)
SortedByDist_OnePerDist(q) ==
    LET dists == {q[k].dist : k \in 1..Len(q)}
    IN  {r \in [1..Cardinality(dists) -> SeqRange(q)] :
            \A i \in 1..(Cardinality(dists) - 1) : r[i].dist < r[i + 1].dist}

(* a sort that leaves the results as they were pushed *)
SortedByDist_Unsorted(q) == {q}

(* what std::sort with the comparator a.second < b.second may leave of q:  *)
(* a permutation of q ascending by dist (the order among equal dist is not *)
(* specified)                                                              *)
SortedByDist(q) ==
    {r \in [1..Len(q) -> SeqRange(q)] :
        /\ \A i, j \in 1..Len(q) : i # j => r[i] # r[j]
        /\ \A i \in 1..(Len(q) - 1) : r[i].dist <= r[i + 1].dist}

(* LSHIndex::querySimilar, the candidates iterated in the order iter *)
querySimilar(iter, signature, allSignatures, threshold) ==
    SortedByDist(VerifyFrom(iter, 1, signature, allSignatures, threshold))

RECURSIVE SumOver(_, _)
SumOver(f, dom) ==
    IF dom = {} THEN 0
    ELSE LET x == CHOOSE y \in dom : TRUE
         IN  f[x] + SumOver(f, dom \ {x})

Max(x, y) == IF x >= y THEN x ELSE y

RECURSIVE MaxOver(_, _)
MaxOver(f, dom) ==
    IF dom = {} THEN 0
    ELSE LET x == CHOOSE y \in dom : TRUE
         IN  Max(f[x], MaxOver(f, dom \ {x}))

(* getStats that counts the posting lists of every band *)
getStats_CountsEveryBand(index) ==
    LET bands == DOMAIN index.buckets
        sizes == [b \in bands |->
                    [hash \in DOMAIN index.buckets[b] |-> Len(index.buckets[b][hash])]]
    IN  [numSignatures |->
             SumOver([b \in bands |-> SumOver(sizes[b], DOMAIN sizes[b])], bands),
         numBands |-> index.numBands,
         bitsPerBand |-> index.bitsPerBand,
         totalBuckets |-> 0,
         avgBucketSize |-> [num |-> 0, den |-> 1],
         maxBucketSize |-> 0]

(* LSHIndex::getStats *)
getStats(index) ==
    LET bands == DOMAIN index.buckets
        nKeys == [b \in bands |-> Cardinality(DOMAIN index.buckets[b])]
        sizes == [b \in bands |->
                    [hash \in DOMAIN index.buckets[b] |-> Len(index.buckets[b][hash])]]
        totalBuckets == SumOver(nKeys, bands)
        totalBucketSizes ==
            SumOver([b \in bands |-> SumOver(sizes[b], DOMAIN sizes[b])], bands)
        maxBucket == MaxOver([b \in bands |-> MaxOver(sizes[b], DOMAIN sizes[b])], bands)
        totalSignatures ==
            IF bands # {} THEN SumOver(sizes[0], DOMAIN sizes[0]) ELSE 0
    IN  [numSignatures |-> totalSignatures,
         numBands |-> index.numBands,
         bitsPerBand |-> index.bitsPerBand,
         totalBuckets |-> totalBuckets,
         \* avgBucketSize, a double: the quotient num / den
         avgBucketSize |-> IF totalBuckets > 0
                           THEN [num |-> totalBucketSizes, den |-> totalBuckets]
                           ELSE [num |-> 0, den |-> 1],
         maxBucketSize |-> maxBucket]

---------------------------------------------------------------------------
(* The number of bit positions in which two byte strings differ, counted   *)
(* bit by bit over the first len bytes.                                    *)

BitsDiffer(x, y, k) == ((x \div Pow2(k)) % 2) # ((y \div Pow2(k)) % 2)

DifferingBitsOfBytes ==
    [x \in 0..255 |-> [y \in 0..255 |->
        Cardinality({k \in 0..7 : BitsDiffer(x, y, k)})]]

RECURSIVE DifferingBits(_, _, _)
DifferingBits(a, b, len) ==
    IF len = 0 THEN 0
    ELSE DifferingBits(a, b, len - 1) + DifferingBitsOfBytes[a[len]][b[len]]

---------------------------------------------------------------------------
(* The exported hamming(bufferA, bufferB) called once on a pair of buffers. *)

HamBytes == {0, 1, 165, 255}

HamFill == {0, 255}

(* byte strings of one or two runs: x repeated p times, then y *)
TwoRun(len, p, x, y) == [i \in 1..len |-> IF i <= p THEN x ELSE y]

HamStrings(len, bytes) ==
    {TwoRun(len, p, x, y) : p \in 0..len, x \in bytes, y \in bytes}

HamArgs ==
    UNION {HamStrings(len, HamBytes) \X HamStrings(len, HamFill) :
             len \in 0..MaxHamLen}
    \cup {<<TwoRun(la, 0, x, x), TwoRun(lb, 0, y, y)>> :
            la \in 0..2, lb \in 0..2, x \in HamBytes, y \in HamBytes}

NoCall == [op |-> "none", err |-> "none"]

RegistryIdle ==
    /\ g_lshIndexes = << >>
    /\ g_lshSignatures = << >>
    /\ g_nextHandle = 1
    /\ ret = NoCall
    /\ passed = << >>
    /\ returned = << >>
    /\ lastMinted = << >>

InitHamming ==
    /\ hwPopcnt \in BOOLEAN
    /\ openmp = FALSE
    /\ \E args \in HamArgs :
          ham = [a |-> args[1], b |-> args[2], pc |-> "call", result |-> [err |-> "none", dist |-> 0]]
    /\ fsp = [pc |-> "idle"]
    /\ bat = [pc |-> "idle"]
    /\ ext = [pc |-> "idle"]
    /\ RegistryIdle

HammingCall ==
    /\ ham.pc = "call"
    /\ ham' = [ham EXCEPT !.pc = "done", !.result = Hamming(ham.a, ham.b)]
    /\ UNCHANGED <<hwPopcnt, openmp, fsp, bat, ext, g_lshIndexes, g_lshSignatures,
                   g_nextHandle, ret, passed, returned,
                   lastMinted>>

NextHamming == HammingCall

SpecHamming == InitHamming /\ [][NextHamming]_vars

(* C10: hamming_distance(a, b, len) is the number of bit positions in which *)
(* a and b differ and lies in 0..8*len: the 64-bit word loop plus the       *)
(* byte-level tail give the bit-by-bit count.                               *)
C10_HammingIsBitCount ==
    (ham.pc = "done" /\ Len(ham.a) = Len(ham.b)) =>
        /\ ham.result.err = "none"
        /\ ham.result.dist = DifferingBits(ham.a, ham.b, Len(ham.a))
        /\ ham.result.dist >= 0
        /\ ham.result.dist <= 8 * Len(ham.a)

(* a call that went through two 64-bit words and a tail byte, with         *)
(* differing bits in all three                                             *)
C10_Witness ==
    /\ ham.pc = "done"
    /\ Len(ham.a) = 17 /\ Len(ham.b) = 17
    /\ ham.a[1] # ham.b[1]
    /\ ham.a[9] # ham.b[9]
    /\ ham.a[17] = 1 /\ ham.b[17] = 0
    /\ ham.result.dist > 16

---------------------------------------------------------------------------
(* find_similar_pairs called once: the OpenMP build runs the outer loop in  *)
(* chunks of ChunkSize handed to whichever worker asks next, then merges;  *)
(* the build without OpenMP runs the single-threaded fallback.             *)

FspBytes == {<<0, 0>>, <<0, 3>>, <<1, 0>>, <<1, 3>>}

FspSigLens == {1, 9}

FspThresholds == {0, 1}

AllPairs(n) == (n * (n - 1)) \div 2

FspMaxPairs(n) == {0, 1, 5, AllPairs(n)}

(* a few small n, and the n around MaxN that need a second chunk *)
FspNs == {n \in 0..MaxN : n <= 3 \/ n >= MaxN - 2}

(* n signatures of sig_len bytes in one array: signature i is filled with  *)
(* xy[1], xy[2] or xy[2] + 4 as i is 0, 1 or 2 modulo 3                    *)
FspArray(n, sig_len, xy) ==
    [k \in 1..(n * sig_len) |->
        LET class == ((k - 1) \div sig_len) % 3
        IN  IF class = 0 THEN xy[1] ELSE IF class = 1 THEN xy[2] ELSE xy[2] + 4]

InitPairs ==
    /\ hwPopcnt \in BOOLEAN
    /\ openmp \in BOOLEAN
    /\ ham = [pc |-> "idle"]
    /\ bat = [pc |-> "idle"]
    /\ ext = [pc |-> "idle"]
    /\ \E n \in FspNs, sig_len \in FspSigLens, xy \in FspBytes,
          threshold \in FspThresholds,
          num_threads \in (IF openmp THEN 1..MaxThreads ELSE {1}) :
          \E max_pairs \in FspMaxPairs(n) :
             fsp = [pc |-> "call",
                    signatures |-> FspArray(n, sig_len, xy),
                    n |-> n, sig_len |-> sig_len, threshold |-> threshold,
                    max_pairs |-> max_pairs, num_threads |-> num_threads,
                    next |-> 0,
                    local |-> [t \in 0..(num_threads - 1) |-> << >>],
                    out |-> << >>, count |-> 0]
    /\ RegistryIdle

(* worker t takes the next chunk of the outer loop and runs it *)
FspChunk(t) ==
    /\ openmp
    /\ fsp.pc = "call"
    /\ fsp.next < fsp.n
    /\ LET hi == Min(fsp.next + ChunkSize, fsp.n)
       IN  fsp' = [fsp EXCEPT
                     !.next = hi,
                     !.local[t] = @ \o ChunkLoop(fsp.signatures, fsp.n, fsp.sig_len,
                                                 fsp.threshold, fsp.next, hi)]
    /\ UNCHANGED <<hwPopcnt, openmp, ham, bat, ext, g_lshIndexes, g_lshSignatures,
                   g_nextHandle, ret, passed, returned,
                   lastMinted>>

(* all chunks are done: the sequential merge, and the return *)
FspMerge ==
    /\ openmp
    /\ fsp.pc = "call"
    /\ fsp.next >= fsp.n
    /\ LET out == MergeFrom(fsp.local, fsp.num_threads, fsp.max_pairs, 0, << >>)
       IN  fsp' = [fsp EXCEPT !.pc = "done", !.out = out, !.count = Len(out)]
    /\ UNCHANGED <<hwPopcnt, openmp, ham, bat, ext, g_lshIndexes, g_lshSignatures,
                   g_nextHandle, ret, passed, returned,
                   lastMinted>>

FspSerial ==
    /\ ~openmp
    /\ fsp.pc = "call"
    /\ LET out == SerialLoop(fsp.signatures, fsp.n, fsp.sig_len, fsp.threshold,
                             fsp.max_pairs, 0, << >>)
       IN  fsp' = [fsp EXCEPT !.pc = "done", !.out = out, !.count = Len(out)]
    /\ UNCHANGED <<hwPopcnt, openmp, ham, bat, ext, g_lshIndexes, g_lshSignatures,
                   g_nextHandle, ret, passed, returned,
                   lastMinted>>

NextPairs ==
    \/ \E t \in 0..(MaxThreads - 1) : t < fsp.num_threads /\ FspChunk(t)
    \/ FspMerge
    \/ FspSerial

SpecPairs == InitPairs /\ [][NextPairs]_vars

(* the pairs (i, j), i < j < n, within the threshold, counted bit by bit *)
Qualifying ==
    {p \in (0..(fsp.n - 1)) \X (0..(fsp.n - 1)) :
        /\ p[1] < p[2]
        /\ DifferingBits(SigAt(fsp.signatures, p[1], fsp.sig_len),
                         SigAt(fsp.signatures, p[2], fsp.sig_len),
                         fsp.sig_len) <= fsp.threshold}

(* C5: every emitted record (i, j, dist) has i < j < n, dist the Hamming   *)
(* distance of S[i] and S[j], dist <= r; and with maxPairs >= n*(n-1)/2    *)
(* every pair within r is emitted exactly once, whatever the workers and   *)
(* the chunk schedule.                                                     *)
C5_PairsSoundAndComplete ==
    fsp.pc = "done" =>
        /\ fsp.count = Len(fsp.out)
        /\ \A k \in 1..fsp.count :
              LET e == fsp.out[k]
              IN  /\ 0 <= e.i /\ e.i < e.j /\ e.j < fsp.n
                  /\ e.dist = DifferingBits(SigAt(fsp.signatures, e.i, fsp.sig_len),
                                            SigAt(fsp.signatures, e.j, fsp.sig_len),
                                            fsp.sig_len)
                  /\ e.dist <= fsp.threshold
        /\ fsp.max_pairs >= AllPairs(fsp.n) =>
              \A p \in Qualifying :
                 Cardinality({k \in 1..fsp.count :
                                 fsp.out[k].i = p[1] /\ fsp.out[k].j = p[2]}) = 1

(* an OpenMP run of two chunks taken by two different workers, the later   *)
(* chunk by worker 0, so that the output is not in (i, j) order            *)
C5_Witness ==
    /\ fsp.pc = "done"
    /\ openmp
    /\ fsp.n > ChunkSize
    /\ fsp.max_pairs >= AllPairs(fsp.n)
    /\ fsp.local[0] # << >>
    /\ fsp.num_threads = 2
    /\ fsp.local[1] # << >>
    /\ fsp.local[0][1].i >= ChunkSize
    /\ fsp.count > 1
    /\ fsp.count < AllPairs(fsp.n)
    /\ \E k \in 1..fsp.count : fsp.out[k].dist > 0

(* C6: count = min(Q, maxPairs), Q the number of pairs within the          *)
(* threshold, and no output slot at index >= maxPairs is written, in the   *)
(* parallel merge and in the single-threaded fallback.                     *)
C6_CountIsMinOfQAndMax ==
    fsp.pc = "done" =>
        /\ fsp.count = Min(Cardinality(Qualifying), fsp.max_pairs)
        /\ Len(fsp.out) <= fsp.max_pairs

(* a run that had more pairs within the threshold than maxPairs and        *)
(* dropped the rest                                                        *)
C6_Witness ==
    /\ fsp.pc = "done"
    /\ fsp.max_pairs = 5
    /\ Cardinality(Qualifying) > 5
    /\ fsp.count = 5
    /\ fsp.n > ChunkSize

---------------------------------------------------------------------------
(* batch_hamming on bounded inputs.  schedule(static) gives every worker   *)
(* one contiguous block of the iterations; how long each block is, is the  *)
(* OpenMP runtime's choice.  The workers then run their blocks in any      *)
(* interleaving.                                                           *)

MaxBatch == 4

BatTargets == {0, 255}

BatSigLens == {1, 9}

(* the ways to cut [0, n) into T contiguous blocks, block t = [c[t], c[t+1]) *)
Splits(n, T) ==
    {c \in [0..T -> 0..n] :
        /\ c[0] = 0
        /\ c[T] = n
        /\ \A t \in 0..(T - 1) : c[t] <= c[t + 1]}

InitBatch ==
    /\ hwPopcnt \in BOOLEAN
    /\ openmp \in BOOLEAN
    /\ ham = [pc |-> "idle"]
    /\ fsp = [pc |-> "idle"]
    /\ ext = [pc |-> "idle"]
    /\ \E n \in 0..MaxBatch, sig_len \in BatSigLens, xy \in FspBytes, x \in BatTargets,
          num_threads \in (IF openmp THEN 1..MaxThreads ELSE {1}) :
          bat = [pc |-> "call",
                 target |-> [k \in 1..sig_len |-> x],
                 signatures |-> FspArray(n, sig_len, xy),
                 n |-> n, sig_len |-> sig_len, num_threads |-> num_threads,
                 next |-> << >>, last |-> << >>,
                 out |-> << >>, writers |-> << >>]
    /\ RegistryIdle

(* the loop is entered: the iterations are dealt out to the workers *)
BatchFork ==
    /\ bat.pc = "call"
    /\ \E c \in Splits(bat.n, bat.num_threads) :
          bat' = [bat EXCEPT
                    !.pc = "run",
                    !.next = [t \in 0..(bat.num_threads - 1) |-> c[t]],
                    !.last = [t \in 0..(bat.num_threads - 1) |-> c[t + 1]]]
    /\ UNCHANGED <<hwPopcnt, openmp, ham, fsp, ext, g_lshIndexes, g_lshSignatures,
                   g_nextHandle, ret, passed, returned, lastMinted>>

(* worker t runs the next iteration of its block *)
BatchStep(t) ==
    /\ bat.pc = "run"
    /\ t \in DOMAIN bat.next
    /\ bat.next[t] < bat.last[t]
    /\ LET i == bat.next[t]
       IN  bat' = [bat EXCEPT
                     !.next[t] = i + 1,
                     !.out = WriteAt(@, i, BatchIteration(bat.target, bat.signatures,
                                                          bat.sig_len, i)),
                     !.writers = WriteAt(@, i, (IF i \in DOMAIN @ THEN @[i] ELSE << >>)
                                                \o <<t>>)]
    /\ UNCHANGED <<hwPopcnt, openmp, ham, fsp, ext, g_lshIndexes, g_lshSignatures,
                   g_nextHandle, ret, passed, returned, lastMinted>>

(* every worker has run its block: the loop ends and batch_hamming returns *)
BatchJoin ==
    /\ bat.pc = "run"
    /\ \A t \in DOMAIN bat.next : bat.next[t] = bat.last[t]
    /\ bat' = [bat EXCEPT !.pc = "done"]
    /\ UNCHANGED <<hwPopcnt, openmp, ham, fsp, ext, g_lshIndexes, g_lshSignatures,
                   g_nextHandle, ret, passed, returned, lastMinted>>

NextBatch == BatchFork \/ (\E t \in 0..(MaxThreads - 1) : BatchStep(t)) \/ BatchJoin

SpecBatch == InitBatch /\ [][NextBatch]_vars

(* C15: batch_hamming writes out[i] = hamming_distance(target, signature i) *)
(* for every i in [0, n) and nothing outside; under every number of        *)
(* workers and every interleaving each out[i] is written once, by one      *)
(* worker, so that the result is the same for every schedule.              *)
C15_BatchWritesEachOnce ==
    bat.pc \in {"run", "done"} =>
        /\ DOMAIN bat.out \subseteq 0..(bat.n - 1)
        /\ DOMAIN bat.writers = DOMAIN bat.out
        /\ \A i \in DOMAIN bat.out :
              /\ bat.out[i] = DifferingBits(bat.target,
                                            SigAt(bat.signatures, i, bat.sig_len),
                                            bat.sig_len)
              /\ Len(bat.writers[i]) = 1
        /\ bat.pc = "done" => DOMAIN bat.out = 0..(bat.n - 1)

(* a finished run of two workers that both wrote, with different distances *)
(* in the output                                                           *)
C15_Witness ==
    /\ bat.pc = "done"
    /\ bat.num_threads = 2
    /\ bat.sig_len = 9
    /\ \E i, j \in DOMAIN bat.out :
          /\ i < j
          /\ bat.writers[i] = <<0>> /\ bat.writers[j] = <<1>>
          /\ bat.out[i] # bat.out[j]
          /\ bat.out[i] > 0

---------------------------------------------------------------------------
(* addon.cc: the handle registry and its exported operations.              *)

(* std::map: insert or overwrite, erase *)
MapPut(m, k, v) == [x \in DOMAIN m \cup {k} |-> IF x = k THEN v ELSE m[x]]

MapErase(m, k) == [x \in DOMAIN m \ {k} |-> m[x]]

(* a value that is not a Buffer where a signature is expected *)
NotBuffer == <<-1>>

IsBuffer(v) == v # NotBuffer

(* the arguments a call may be given *)
CreateArgs == {<<2, 4>>, <<2, 8>>}

Signatures == {<<16>>, <<0, 1>>, <<1, 1>>}

Thresholds == {0, 1}

HandleArgs == 1..MaxHandles

BatchElements == {<<16>>, <<0, 1>>, NotBuffer}

BatchArgs == UNION {[1..n -> BatchElements] : n \in 0..MaxSigs}

(* the signatures held by all stores *)
TotalStored ==
    SumOver([h \in DOMAIN g_lshSignatures |-> Len(g_lshSignatures[h])],
            DOMAIN g_lshSignatures)

Ret(op, h, live, sig, threshold, iter, val, err) ==
    [op |-> op, h |-> h, live |-> live, sig |-> sig, threshold |-> threshold,
     iter |-> iter, val |-> val, err |-> err]

(* the signature argument of lshAddBatch is an array: ret keeps its length *)
ArrayOf(sigArray) == <<Len(sigArray)>>

Init ==
    /\ hwPopcnt = TRUE
    /\ openmp = FALSE
    /\ ham = [pc |-> "idle"]
    /\ fsp = [pc |-> "idle"]
    /\ bat = [pc |-> "idle"]
    /\ ext = [pc |-> "idle"]
    /\ RegistryIdle

Build == <<hwPopcnt, openmp, ham, fsp, bat, ext>>

(* a store that keeps all but the last byte of the signature *)
EmplaceBack_DropsLastByte(sigs, data, length) ==
    Append(sigs, SubSeq(data, 1, length - 1))

(* sigs.emplace_back(data, data + length): the bytes are copied *)
EmplaceBack(sigs, data, length) == Append(sigs, SubSeq(data, 1, length))

CreateLSHIndex(args) ==
    /\ ret = NoCall
    /\ g_nextHandle <= MaxHandles
    /\ LET numBands == IF Len(args) >= 1 THEN args[1] ELSE 32
           bitsPerBand == IF Len(args) >= 2 THEN args[2] ELSE 16
           handle == g_nextHandle
       IN  /\ g_nextHandle' = U32Inc(g_nextHandle)
           /\ lastMinted' = IF lastMinted = << >> \/ U32Less(lastMinted[1], handle)
                             THEN <<handle>>
                             ELSE lastMinted
           /\ g_lshIndexes' = MapPut(g_lshIndexes, handle, LSHIndex(numBands, bitsPerBand))
           /\ g_lshSignatures' = MapPut(g_lshSignatures, handle, << >>)
           /\ passed' = MapPut(passed, handle, << >>)
           /\ returned' = MapPut(returned, handle, 0)
           /\ ret' = Ret("createLSHIndex", handle, FALSE, args, 0, << >>, handle, "none")
    /\ UNCHANGED Build

(* g_lshSignatures[handle]: the entry, default-constructed when absent *)
SigsOf(handle) ==
    IF handle \in DOMAIN g_lshSignatures THEN g_lshSignatures[handle] ELSE << >>

Registry ==
    <<g_lshIndexes, g_lshSignatures, g_nextHandle, passed, returned, lastMinted>>

LSHAdd(handle, sig) ==
    /\ ret = NoCall
    /\ LET live == handle \in DOMAIN g_lshIndexes
       IN  IF ~IsBuffer(sig)
           THEN /\ ret' = Ret("lshAdd", handle, live, sig, 0, << >>, 0, "TypeError")
                /\ UNCHANGED <<Build, Registry>>
           ELSE IF ~live
           THEN /\ ret' = Ret("lshAdd", handle, live, sig, 0, << >>, 0, "InvalidHandle")
                /\ UNCHANGED <<Build, Registry>>
           ELSE /\ TotalStored < MaxSigs
                /\ LET sigs == SigsOf(handle)
                       id == Len(sigs)
                   IN  /\ g_lshSignatures' =
                              MapPut(g_lshSignatures, handle,
                                     EmplaceBack(sigs, sig, Len(sig)))
                       /\ g_lshIndexes' =
                              [g_lshIndexes EXCEPT ![handle] = IndexAdd(@, id, sig)]
                       /\ passed' = [passed EXCEPT ![handle] = Append(@, sig)]
                       /\ returned' = [returned EXCEPT ![handle] = @ + 1]
                       /\ ret' = Ret("lshAdd", handle, live, sig, 0, << >>, id, "none")
                /\ UNCHANGED <<Build, g_nextHandle, lastMinted>>

(* the loop of LSHAddBatch from element i (0-based) on *)
RECURSIVE AddBatchFrom(_, _, _, _, _)
AddBatchFrom(index, sigs, sigArray, i, result) ==
    IF i >= Len(sigArray)
    THEN [index |-> index, sigs |-> sigs, result |-> result, err |-> "none"]
    ELSE LET val == sigArray[i + 1]
         IN  IF ~IsBuffer(val)
             THEN [index |-> index, sigs |-> sigs, result |-> result, err |-> "TypeError"]
             ELSE LET id == Len(sigs)
                  IN  AddBatchFrom(IndexAdd(index, id, val),
                                   EmplaceBack(sigs, val, Len(val)),
                                   sigArray, i + 1, Append(result, id))

(* the elements of sigArray before the first that is no Buffer *)
RECURSIVE LeadingBuffers(_)
LeadingBuffers(sigArray) ==
    IF sigArray = << >> \/ ~IsBuffer(Head(sigArray)) THEN << >>
    ELSE <<Head(sigArray)>> \o LeadingBuffers(Tail(sigArray))

LSHAddBatch(handle, sigArray) ==
    /\ ret = NoCall
    /\ LET live == handle \in DOMAIN g_lshIndexes
       IN  IF ~live
           THEN /\ ret' = Ret("lshAddBatch", handle, live, ArrayOf(sigArray), 0, << >>,
                              << >>, "InvalidHandle")
                /\ UNCHANGED <<Build, Registry>>
           ELSE /\ TotalStored + Len(LeadingBuffers(sigArray)) <= MaxSigs
                /\ LET r == AddBatchFrom(g_lshIndexes[handle], SigsOf(handle),
                                         sigArray, 0, << >>)
                   IN  /\ g_lshSignatures' = MapPut(g_lshSignatures, handle, r.sigs)
                       /\ g_lshIndexes' = [g_lshIndexes EXCEPT ![handle] = r.index]
                       /\ passed' = [passed EXCEPT
                                       ![handle] = @ \o LeadingBuffers(sigArray)]
                       /\ returned' =
                              [returned EXCEPT
                                 ![handle] = IF r.err = "none" THEN @ + Len(r.result) ELSE @]
                       /\ ret' = Ret("lshAddBatch", handle, live, ArrayOf(sigArray), 0,
                                     << >>, IF r.err = "none" THEN r.result ELSE << >>,
                                     r.err)
                /\ UNCHANGED <<Build, g_nextHandle, lastMinted>>

LSHQuery(handle, sig, threshold) ==
    /\ ret = NoCall
    /\ LET live == handle \in DOMAIN g_lshIndexes
       IN  IF ~IsBuffer(sig)
           THEN ret' = Ret("lshQuery", handle, live, sig, threshold, << >>, << >>,
                           "TypeError")
           ELSE IF handle \notin DOMAIN g_lshIndexes
                   \/ handle \notin DOMAIN g_lshSignatures
           THEN ret' = Ret("lshQuery", handle, live, sig, threshold, << >>, << >>,
                           "InvalidHandle")
           ELSE \E iter \in IterationOrders(findCandidates(g_lshIndexes[handle], sig)) :
                   \E results \in querySimilar(iter, sig, g_lshSignatures[handle],
                                               threshold) :
                      ret' = Ret("lshQuery", handle, live, sig, threshold, iter,
                                 results, "none")
    /\ UNCHANGED <<Build, Registry>>

LSHGetCandidates(handle, sig) ==
    /\ ret = NoCall
    /\ LET live == handle \in DOMAIN g_lshIndexes
       IN  IF ~live
           THEN ret' = Ret("lshGetCandidates", handle, live, sig, 0, << >>, << >>,
                           "InvalidHandle")
           ELSE \E iter \in IterationOrders(findCandidates(g_lshIndexes[handle], sig)) :
                   ret' = Ret("lshGetCandidates", handle, live, sig, 0, iter, iter, "none")
    /\ UNCHANGED <<Build, Registry>>

LSHGetStats(handle) ==
    /\ ret = NoCall
    /\ LET live == handle \in DOMAIN g_lshIndexes
       IN  IF ~live
           THEN ret' = Ret("lshGetStats", handle, live, << >>, 0, << >>, << >>,
                           "InvalidHandle")
           ELSE ret' = Ret("lshGetStats", handle, live, << >>, 0, << >>,
                           getStats(g_lshIndexes[handle]), "none")
    /\ UNCHANGED <<Build, Registry>>

(* a destroy that erases the index and leaves the store *)
LSHDestroy_KeepsStore(handle) ==
    /\ ret = NoCall
    /\ LET live == handle \in DOMAIN g_lshIndexes
       IN  ret' = Ret("lshDestroy", handle, live, << >>, 0, << >>, << >>, "none")
    /\ g_lshIndexes' = MapErase(g_lshIndexes, handle)
    /\ passed' = MapErase(passed, handle)
    /\ returned' = MapErase(returned, handle)
    /\ UNCHANGED <<Build, g_nextHandle, lastMinted, g_lshSignatures>>

LSHDestroy(handle) ==
    /\ ret = NoCall
    /\ LET live == handle \in DOMAIN g_lshIndexes
       IN  ret' = Ret("lshDestroy", handle, live, << >>, 0, << >>, << >>, "none")
    /\ g_lshIndexes' = MapErase(g_lshIndexes, handle)
    /\ g_lshSignatures' = MapErase(g_lshSignatures, handle)
    /\ passed' = MapErase(passed, handle)
    /\ returned' = MapErase(returned, handle)
    /\ UNCHANGED <<Build, g_nextHandle, lastMinted>>

(* the call has returned to its caller, which may make the next call *)
Return ==
    /\ ret # NoCall
    /\ ret' = NoCall
    /\ UNCHANGED <<Build, Registry>>

Next ==
    \/ \E args \in CreateArgs : CreateLSHIndex(args)
    \/ \E handle \in HandleArgs, sig \in Signatures \cup {NotBuffer} : LSHAdd(handle, sig)
    \/ \E handle \in HandleArgs, sigArray \in BatchArgs : LSHAddBatch(handle, sigArray)
    \/ \E handle \in HandleArgs, sig \in Signatures \cup {NotBuffer},
          threshold \in Thresholds : LSHQuery(handle, sig, threshold)
    \/ \E handle \in HandleArgs, sig \in Signatures : LSHGetCandidates(handle, sig)
    \/ \E handle \in HandleArgs : LSHGetStats(handle)
    \/ \E handle \in HandleArgs : LSHDestroy(handle)
    \/ Return

Spec == Init /\ [][Next]_vars

---------------------------------------------------------------------------
(* Properties of the registry. *)

Live == DOMAIN g_lshIndexes

Returned(op) == ret.op = op /\ ret.err = "none"

(* the ids whose signature LSHIndex::add does not skip *)
Accepted(h) ==
    {k - 1 : k \in {m \in 1..Len(passed[h]) :
                      Len(passed[h][m]) >= requiredBytes(g_lshIndexes[h])}}

(* C1, as amended: every {id, dist} of lshQuery(h, probe, r) has dist <= r  *)
(* and dist the Hamming distance of the first min(len(probe),              *)
(* len(store[id])) bytes of probe and store[id], which is                  *)
(* hamming(probe, store[id]) when the two have the same length.            *)
C1_QueryDistOverCommonPrefix ==
    Returned("lshQuery") =>
        \A k \in 1..Len(ret.val) :
           LET e == ret.val[k]
               store == g_lshSignatures[ret.h]
           IN  /\ e.id < Len(store)
               /\ e.dist = DifferingBits(ret.sig, store[e.id + 1],
                                         Min(Len(ret.sig), Len(store[e.id + 1])))
               /\ Len(ret.sig) = Len(store[e.id + 1]) =>
                     /\ Hamming(ret.sig, store[e.id + 1]).err = "none"
                     /\ e.dist = Hamming(ret.sig, store[e.id + 1]).dist
               /\ e.dist <= ret.threshold

(* C1, as claimed: dist == hamming(probe, store[id]) and dist <= r, also    *)
(* when probe and store[id] have different lengths.                        *)
C1_QueryDistIsHamming ==
    Returned("lshQuery") =>
        \A k \in 1..Len(ret.val) :
           LET e == ret.val[k]
               store == g_lshSignatures[ret.h]
           IN  /\ e.id < Len(store)
               /\ Hamming(ret.sig, store[e.id + 1]).err = "none"
               /\ e.dist = Hamming(ret.sig, store[e.id + 1]).dist
               /\ e.dist <= ret.threshold

(* a query that returned a stored signature longer than the probe, at       *)
(* distance 1                                                               *)
C1_Witness ==
    /\ Returned("lshQuery")
    /\ \E k \in 1..Len(ret.val) :
          /\ Len(g_lshSignatures[ret.h][ret.val[k].id + 1]) > Len(ret.sig)
          /\ ret.val[k].dist = 1

(* C2: with B >= 1 and 1 <= W <= 64, a signature s of at least              *)
(* requiredBytes that was added under id k is returned as {k, 0} by         *)
(* lshQuery(h, s, 0), whatever was added after it.                          *)
C2_ExactMatchRecall ==
    (Returned("lshQuery") /\ ret.threshold = 0) =>
        LET index == g_lshIndexes[ret.h]
        IN  (index.numBands >= 1 /\ index.bitsPerBand >= 1 /\ index.bitsPerBand <= 64) =>
               \A k \in 1..Len(passed[ret.h]) :
                  (passed[ret.h][k] = ret.sig /\ Len(ret.sig) >= requiredBytes(index)) =>
                     \E m \in 1..Len(ret.val) : ret.val[m] = [id |-> k - 1, dist |-> 0]

(* a query at threshold 0 that returned id 0 after a second signature was   *)
(* added                                                                    *)
C2_Witness ==
    /\ Returned("lshQuery")
    /\ ret.threshold = 0
    /\ Len(passed[ret.h]) = 2
    /\ passed[ret.h][1] = ret.sig
    /\ passed[ret.h][2] # ret.sig
    /\ ret.val = <<[id |-> 0, dist |-> 0]>>

(* C3: on one handle the ids returned by lshAdd and lshAddBatch are 0, 1,   *)
(* 2, ... with no gap and no repeat: the k-th id returned is k - 1, and a   *)
(* batch of n returns the next n ids in input order.                        *)
C3_ReturnedIdsAreDense ==
    /\ Returned("lshAdd") => ret.val = returned[ret.h] - 1
    /\ Returned("lshAddBatch") =>
          /\ Len(ret.val) = ret.sig[1]
          /\ \A k \in 1..Len(ret.val) :
                ret.val[k] = returned[ret.h] - Len(ret.val) + k - 1

(* C4: the store entry at every id minted on a live handle is the byte      *)
(* string passed to the add that minted it, whatever was called since.      *)
C4_StoreKeepsPassedBytes ==
    /\ DOMAIN g_lshSignatures = DOMAIN passed
    /\ \A h \in DOMAIN g_lshSignatures : g_lshSignatures[h] = passed[h]
    /\ Returned("lshAdd") => g_lshSignatures[ret.h][ret.val + 1] = ret.sig

(* handle 1 holds two different signatures after handle 2 was created,      *)
(* used and destroyed                                                       *)
C4_Witness ==
    /\ ret.op = "lshDestroy" /\ ret.h = 2 /\ ret.live
    /\ 1 \in DOMAIN g_lshSignatures
    /\ g_lshSignatures[1] = <<(<<16>>), (<<0, 1>>)>>

(* C7: stats.numSignatures is the number of adds whose signature had at     *)
(* least requiredBytes, which may be less than the ids minted.              *)
C7_NumSignaturesCountsAccepted ==
    Returned("lshGetStats") =>
        (g_lshIndexes[ret.h].numBands >= 1 =>
            ret.val.numSignatures = Cardinality(Accepted(ret.h)))

(* stats of an index that took one signature and skipped another *)
C7_Witness ==
    /\ Returned("lshGetStats")
    /\ ret.val.numSignatures = 1
    /\ Len(g_lshSignatures[ret.h]) = 2

HandleOps ==
    {"lshAdd", "lshAddBatch", "lshQuery", "lshGetCandidates", "lshGetStats",
     "lshDestroy"}

(* C8: every handle-keyed operation called (with arguments of the right     *)
(* type) on a handle that names no live index fails with an invalid-handle  *)
(* error and leaves the registry, the indexes and the stores unchanged.     *)
C8_DeadHandleIsAnError ==
    [][(ret'.op \in HandleOps /\ ~ret'.live /\ ret'.sig # NotBuffer) =>
          (ret'.err = "InvalidHandle"
           /\ UNCHANGED <<g_lshIndexes, g_lshSignatures, g_nextHandle>>)]_vars

(* the posting lists of band b of an index, as the sequence of their ids *)
RECURSIVE IdsOf(_, _)
IdsOf(bucket, hashes) ==
    IF hashes = {} THEN << >>
    ELSE LET hash == CHOOSE x \in hashes : TRUE
         IN  bucket[hash] \o IdsOf(bucket, hashes \ {hash})

(* C9: a signature shorter than requiredBytes is skipped without an error:  *)
(* add leaves every band as it was, so that every band holds exactly the    *)
(* ids of the signatures of at least requiredBytes, each once; and a        *)
(* shorter probe gets no candidate from lshQuery and lshGetCandidates.      *)
C9_ShortSignaturesAreSkipped ==
    /\ \A h \in Live : \A b \in DOMAIN g_lshIndexes[h].buckets :
          LET ids == IdsOf(g_lshIndexes[h].buckets[b],
                           DOMAIN g_lshIndexes[h].buckets[b])
          IN  /\ SeqRange(ids) = Accepted(h)
              /\ Len(ids) = Cardinality(Accepted(h))
    /\ (ret.op = "lshAdd" /\ ret.live /\ IsBuffer(ret.sig)) => ret.err = "none"
    /\ (ret.op \in {"lshQuery", "lshGetCandidates"} /\ ret.live /\ IsBuffer(ret.sig)
        /\ Len(ret.sig) < requiredBytes(g_lshIndexes[ret.h])) =>
          (ret.err = "none" /\ ret.iter = << >> /\ ret.val = << >>)

(* a short probe that got no candidate from an index that holds one         *)
(* signature and skipped another                                            *)
C9_Witness ==
    /\ Returned("lshGetCandidates")
    /\ Len(ret.sig) < requiredBytes(g_lshIndexes[ret.h])
    /\ ret.val = << >>
    /\ Len(passed[ret.h]) = 2
    /\ Cardinality(Accepted(ret.h)) = 1
    /\ passed[ret.h][2] = ret.sig

(* bit t of band b of a signature under (B, W): bit t mod 8 of the byte at  *)
(* offset floor(b*W/8) + floor(t/8)                                         *)
BandBit(signature, W, b, t) ==
    (signature[((b * W) \div 8) + (t \div 8) + 1] \div Pow2(t % 8)) % 2

(* two signatures have the same band-hash in band b: the same W bits *)
SameBandHash(s1, s2, W, b) ==
    \A t \in 0..(W - 1) : BandBit(s1, W, b, t) = BandBit(s2, W, b, t)

(* the ids added with an accepted signature that agrees with the probe on   *)
(* the band-hash of at least one band                                       *)
AgreeingIds(h, probe) ==
    LET index == g_lshIndexes[h]
    IN  {x \in Accepted(h) :
            \E b \in 0..(index.numBands - 1) :
               SameBandHash(passed[h][x + 1], probe, index.bitsPerBand, b)}

(* C11: on a probe of at least requiredBytes, lshGetCandidates returns      *)
(* exactly the ids added with a signature that has the probe's band-hash    *)
(* in at least one band; none outside that set, and none twice.             *)
C11_CandidatesAreTheAgreeingIds ==
    (Returned("lshGetCandidates")
     /\ Len(ret.sig) >= requiredBytes(g_lshIndexes[ret.h])) =>
        /\ SeqRange(ret.val) = AgreeingIds(ret.h, ret.sig)
        /\ \A i, j \in 1..Len(ret.val) : i # j => ret.val[i] # ret.val[j]

(* a lookup that returned an id whose signature agrees with the probe in    *)
(* band 1 and not in band 0, on a handle that also skipped a signature      *)
C11_Witness ==
    /\ Returned("lshGetCandidates")
    /\ Len(passed[ret.h]) = 2
    /\ Len(ret.val) = 1
    /\ LET W == g_lshIndexes[ret.h].bitsPerBand
           s == passed[ret.h][ret.val[1] + 1]
       IN  /\ ~SameBandHash(s, ret.sig, W, 0)
           /\ SameBandHash(s, ret.sig, W, 1)

(* C12: the list returned by lshQuery is ascending by dist.                 *)
C12_QueryAscendingByDist ==
    Returned("lshQuery") =>
        \A k \in 1..(Len(ret.val) - 1) : ret.val[k].dist <= ret.val[k + 1].dist

(* a query whose candidates were iterated farther one first and returned    *)
(* nearer one first                                                         *)
C12_Witness ==
    /\ Returned("lshQuery")
    /\ Len(ret.val) = 2
    /\ ret.val[1].dist < ret.val[2].dist
    /\ ret.iter = <<ret.val[2].id, ret.val[1].id>>

(* the position of id in the iteration of the candidate set *)
IterPos(id) == CHOOSE k \in 1..Len(ret.iter) : ret.iter[k] = id

(* the candidates of the last query that pass the verification *)
Verified ==
    LET store == g_lshSignatures[ret.h]
    IN  {[id |-> id,
          dist |-> DifferingBits(ret.sig, store[id + 1],
                                 Min(Len(ret.sig), Len(store[id + 1])))] :
            id \in {x \in SeqRange(ret.iter) :
                      /\ x < Len(store)
                      /\ DifferingBits(ret.sig, store[x + 1],
                                       Min(Len(ret.sig), Len(store[x + 1])))
                            <= ret.threshold}}

(* C16, as amended: the list returned by lshQuery holds every verified      *)
(* candidate once, ascending by dist; entries of equal dist may come in     *)
(* any relative order, whatever the order of iteration was.                 *)
C16_QueryIsAscendingPermutation ==
    Returned("lshQuery") =>
        /\ SeqRange(ret.val) = Verified
        /\ Len(ret.val) = Cardinality(Verified)
        /\ \A i, j \in 1..Len(ret.val) :
              ret.val[i].dist < ret.val[j].dist => i < j

(* C16, as claimed: entries of equal dist keep the relative order in which  *)
(* their ids were iterated out of the candidate set.                        *)
C16_TiesKeepIterationOrder ==
    Returned("lshQuery") =>
        \A i, j \in 1..Len(ret.val) :
           (i < j /\ ret.val[i].dist = ret.val[j].dist) =>
              IterPos(ret.val[i].id) < IterPos(ret.val[j].id)

(* a query that returned two entries of equal dist, the later iterated      *)
(* first                                                                    *)
C16_Witness ==
    /\ Returned("lshQuery")
    /\ Len(ret.val) = 2
    /\ ret.val[1].dist = ret.val[2].dist
    /\ ret.iter = <<ret.val[2].id, ret.val[1].id>>


(* C18: in every band of every live index, each id of an accepted           *)
(* signature is in exactly one posting list, once; every posting list is    *)
(* in increasing order of id; no id of a skipped signature is in any list;  *)
(* and every id in a list is smaller than the size of the handle's store.   *)
C18_PostingLists ==
    \A h \in Live : \A b \in DOMAIN g_lshIndexes[h].buckets :
       LET bucket == g_lshIndexes[h].buckets[b]
           places(x) == {p \in UNION {{<<hash, k>> : k \in 1..Len(bucket[hash])} :
                                        hash \in DOMAIN bucket} :
                           bucket[p[1]][p[2]] = x}
       IN  /\ \A x \in Accepted(h) : Cardinality(places(x)) = 1
           /\ \A hash \in DOMAIN bucket :
                 /\ \A i, j \in 1..Len(bucket[hash]) :
                       i < j => bucket[hash][i] < bucket[hash][j]
                 /\ \A k \in 1..Len(bucket[hash]) :
                       /\ bucket[hash][k] \in Accepted(h)
                       /\ bucket[hash][k] < Len(g_lshSignatures[h])

(* an index of two bands of 8 bits that holds ids 0 and 1 in two posting    *)
(* lists of band 0 and in one posting list of band 1                        *)
C18_Witness ==
    \E h \in Live :
       LET buckets == g_lshIndexes[h].buckets
       IN  /\ g_lshIndexes[h].bitsPerBand = 8
           /\ Cardinality(DOMAIN buckets[0]) = 2
           /\ \E hash \in DOMAIN buckets[1] : buckets[1][hash] = <<0, 1>>


---------------------------------------------------------------------------
(* The registry of a process that has called createLSHIndex 2^32 - 2 times  *)
(* and destroyed every index: the handles 1 .. 2^32 - 2 were returned, no   *)
(* index is live, and the next handle is 2^32 - 1.                          *)
InitWrap ==
    /\ hwPopcnt = TRUE
    /\ openmp = FALSE
    /\ ham = [pc |-> "idle"]
    /\ fsp = [pc |-> "idle"]
    /\ bat = [pc |-> "idle"]
    /\ ext = [pc |-> "idle"]
    /\ g_lshIndexes = << >>
    /\ g_lshSignatures = << >>
    /\ g_nextHandle = U32(65535, 65535)
    /\ ret = NoCall
    /\ passed = << >>
    /\ returned = << >>
    /\ lastMinted = <<U32(65535, 65534)>>

SpecWrap == InitWrap /\ [][Next]_vars

(* C13: createLSHIndex mints handles monotonically from 1: the first call   *)
(* returns 1, every later call a handle strictly greater than every handle  *)
(* returned before, and never one that names a live index.                  *)
C13_HandlesIncrease ==
    [][ret'.op = "createLSHIndex" =>
          /\ IF lastMinted = << >>
             THEN ret'.val = 1
             ELSE U32Less(lastMinted[1], ret'.val)
          /\ ret'.val \notin DOMAIN g_lshIndexes]_vars

(* C14: the handles that own an index are the handles that own a store:     *)
(* createLSHIndex installs both under the handle it returns, lshDestroy     *)
(* removes both, and every other call, failed ones on an unknown handle     *)
(* included, leaves both sets as they were.                                 *)
C14_IndexAndStoreTogether ==
    [][/\ DOMAIN g_lshIndexes = DOMAIN g_lshSignatures
       /\ DOMAIN g_lshIndexes' = DOMAIN g_lshSignatures'
       /\ ret'.op = "createLSHIndex" =>
             DOMAIN g_lshIndexes' = DOMAIN g_lshIndexes \cup {ret'.val}
       /\ ret'.op = "lshDestroy" =>
             DOMAIN g_lshIndexes' = DOMAIN g_lshIndexes \ {ret'.h}
       /\ ret'.op \notin {"createLSHIndex", "lshDestroy"} =>
             DOMAIN g_lshIndexes' = DOMAIN g_lshIndexes]_vars

(* lshAdd failed on handle 1, destroyed, while handle 2 owns an index and   *)
(* a store that holds a signature                                           *)
C14_Witness ==
    /\ ret.op = "lshAdd" /\ ret.err = "InvalidHandle" /\ ret.h = 1
    /\ DOMAIN g_lshIndexes = {2}
    /\ DOMAIN g_lshSignatures = {2}
    /\ Len(g_lshSignatures[2]) = 1

---------------------------------------------------------------------------
(* extractBandHash on bounded inputs: every band of an index of up to      *)
(* MaxBands bands of 1 to 64 bits, on signatures of requiredBytes and a    *)
(* few bytes more.                                                         *)

MaxBands == 3

BandWidths == 1..64

ExtraBytes == 0..2

(* a signature of len bytes: byte k is 37 * k + x modulo 256 up to byte    *)
(* required, and y from there on                                           *)
BandSignature(len, required, x, y) ==
    [k \in 1..len |-> IF k <= required THEN (37 * k + x) % 256 ELSE y]

InitBand ==
    /\ hwPopcnt = TRUE
    /\ openmp = FALSE
    /\ ham = [pc |-> "idle"]
    /\ fsp = [pc |-> "idle"]
    /\ bat = [pc |-> "idle"]
    /\ \E numBands \in 1..MaxBands, bitsPerBand \in BandWidths, extra \in ExtraBytes,
          x \in {0, 255}, y \in {0, 255} :
          \E bandIndex \in 0..(numBands - 1) :
             LET index == LSHIndex(numBands, bitsPerBand)
             IN  ext = [pc |-> "call",
                        index |-> index,
                        signature |-> BandSignature(requiredBytes(index) + extra,
                                                    requiredBytes(index), x, y),
                        bandIndex |-> bandIndex,
                        reads |-> {},
                        hash |-> U64Zero]
    /\ RegistryIdle

(* extractBandHash(signature, bandIndex) is called and returns.  A read     *)
(* past the end of the signature is undefined: the hash is then any value.  *)
ExtractCall ==
    /\ ext.pc = "call"
    /\ LET window == BandWindow(ext.index, ext.bandIndex)
       IN  IF window \subseteq 0..(Len(ext.signature) - 1)
           THEN ext' = [ext EXCEPT
                          !.pc = "done",
                          !.reads = window,
                          !.hash = extractBandHash(ext.index, ext.signature,
                                                   ext.bandIndex)]
           ELSE \E junk \in {0, 255} :
                   ext' = [ext EXCEPT
                             !.pc = "done", !.reads = window, !.hash = U64Rep(junk)]
    /\ UNCHANGED <<hwPopcnt, openmp, ham, fsp, bat, g_lshIndexes, g_lshSignatures,
                   g_nextHandle, ret, passed, returned, lastMinted>>

NextBand == ExtractCall

SpecBand == InitBand /\ [][NextBand]_vars

(* bit t of a uint64_t *)
U64Bit(x, t) == (x[(t \div 8) + 1] \div Pow2(t % 8)) % 2

(* C17: for B >= 1, 1 <= W <= 64, b < B and a signature of at least         *)
(* requiredBytes = ceil(B*W/8), extractBandHash reads the min(ceil(W/8), 8) *)
(* bytes from floor(b*W/8) on, all of them in [0, requiredBytes): it reads  *)
(* nothing outside the signature, the bytes from requiredBytes on do not    *)
(* influence the band-hash, and the band-hash is the W bits of the window.  *)
C17_WindowWithinRequiredBytes ==
    ext.pc = "done" =>
        LET B == ext.index.numBands
            W == ext.index.bitsPerBand
            b == ext.bandIndex
            required == (B * W + 7) \div 8
            first == (b * W) \div 8
            count == IF (W + 7) \div 8 < 8 THEN (W + 7) \div 8 ELSE 8
        IN  (B >= 1 /\ W >= 1 /\ W <= 64 /\ b < B /\ Len(ext.signature) >= required) =>
               /\ ext.reads = first..(first + count - 1)
               /\ ext.reads \subseteq 0..(required - 1)
               /\ ext.hash = extractBandHash(ext.index,
                                             SubSeq(ext.signature, 1, required), b)
               /\ \A t \in 0..63 :
                     U64Bit(ext.hash, t) =
                        IF t < W THEN BandBit(ext.signature, W, b, t) ELSE 0

(* the last band of three bands of 60 bits: its window of eight bytes ends  *)
(* at the last required byte, and the signature goes on with 255            *)
C17_Witness ==
    /\ ext.pc = "done"
    /\ ext.index.numBands = 3 /\ ext.index.bitsPerBand = 60 /\ ext.bandIndex = 2
    /\ ext.reads = 15..22
    /\ Len(ext.signature) = 25
    /\ ext.signature[24] = 255
    /\ ext.hash # U64Zero

=============================================================================
